---- MODULE Spec2Model ----
(***************************************************************************)
(* A model of the rolling-ball tutorial notebook (src/Tutorial1.ipynb).    *)
(*                                                                         *)
(* The notebook is a Python 2 kernel with one global namespace and a list  *)
(* of code cells; a cell runs to its end (or to its first exception)       *)
(* before the next cell starts.  The state is the global namespace, the    *)
(* call frame of restingPosition while its loop runs, and the outcome of   *)
(* the last cell.                                                          *)
(*                                                                         *)
(* Python floats are modelled as exact rationals <<n, d>> in lowest terms  *)
(* (d > 0): the model is the real arithmetic the floating-point code       *)
(* approximates, and rounding error is outside it.                         *)
(***************************************************************************)
EXTENDS Integers, Sequences, FiniteSets, TLC

VARIABLES
    nb,       \* which of the two notebook copies in the file is loaded (1 or 2)
    dataSrc,  \* the list literal in the data cell
    bound,    \* the global names bound so far
    val,      \* the values of the global names (meaningful for bound names)
    pc,       \* "idle": the kernel waits for a cell; "loop": in restingPosition
    frame,    \* the call frame of restingPosition
    caller,   \* what called restingPosition: "cell" (two-point cell) or "direct"
    out,      \* outcome of the last cell or call
    fits      \* how many times the fit cell has run

vars == <<nb, dataSrc, bound, val, pc, frame, caller, out, fits>>

----------------------------------------------------------------------------
(* Exact rational arithmetic.                                              *)

\* Each operator first binds its operands to values (x \in {x0}), so that an
\* operand is evaluated once however often the body uses it.

Abs(x) == IF x < 0 THEN -x ELSE x

RECURSIVE GCD(_, _)
GCD(a0, b0) ==
    CHOOSE r \in { IF b = 0 THEN a ELSE GCD(b, a % b) : a \in {a0}, b \in {b0} } :
        TRUE

\* n/d in lowest terms with a positive denominator (d # 0)
Norm(n0, d0) ==
    CHOOSE r \in { <<(IF d < 0 THEN -1 ELSE 1) * (n \div k),
                     (IF d < 0 THEN -1 ELSE 1) * (d \div k)>> :
                   n \in {n0}, d \in {d0}, k \in {GCD(Abs(n0), Abs(d0))} } : TRUE

Rat(n) == <<n, 1>>
Zero == <<0, 1>>

RNeg(x0) == CHOOSE r \in { <<-x[1], x[2]>> : x \in {x0} } : TRUE

RAddV(x, y, k) ==
    Norm(x[1] * (y[2] \div k) + y[1] * (x[2] \div k), (x[2] \div k) * y[2])
RAdd(x0, y0) ==
    CHOOSE r \in { RAddV(x, y, GCD(x[2], y[2])) : x \in {x0}, y \in {y0} } : TRUE

RSub(x, y) == RAdd(x, RNeg(y))

RMulV(x, y, k1, k2) ==
    <<(x[1] \div k1) * (y[1] \div k2), (x[2] \div k2) * (y[2] \div k1)>>
RMul(x0, y0) ==
    CHOOSE r \in { IF x[1] = 0 \/ y[1] = 0 THEN Zero
                   ELSE RMulV(x, y, GCD(Abs(x[1]), y[2]), GCD(Abs(y[1]), x[2])) :
                   x \in {x0}, y \in {y0} } : TRUE

\* 1/y for y # 0
RInv(y0) ==
    CHOOSE r \in { IF y[1] < 0 THEN <<-y[2], -y[1]>> ELSE <<y[2], y[1]>> :
                   y \in {y0} } : TRUE
\* x / y for y # 0
RDiv(x, y) == RMul(x, RInv(y))

RSign(x0) ==
    CHOOSE r \in { IF x[1] < 0 THEN -1 ELSE IF x[1] = 0 THEN 0 ELSE 1 : x \in {x0} } :
        TRUE
RLt(x, y) == RSign(RSub(x, y)) < 0
RLe(x, y) == RSign(RSub(x, y)) <= 0
RAbs(x0) == CHOOSE r \in { <<Abs(x[1]), x[2]>> : x \in {x0} } : TRUE

----------------------------------------------------------------------------
(* restingPosition(s, v, alpha)                                            *)

\* g = 9.8 # gravitational acceleration (local to the function)
LocalG == Norm(98, 10)
\* (mutant) a time step ten times coarser
DtCoarse == Norm(1, 100)
\* dt = 0.001 # time step
Dt == Norm(1, 1000)

\* (mutant) the acceleration without the factor g
AccelNoG(alpha) == alpha
\* a = alpha*g # acceleration
Accel(alpha) == RMul(alpha, LocalG)

\* (mutant) the loop test written v <= 0
LoopCondLe(v) == RLe(v, Zero)
\* the loop test: while(v < 0)
LoopCond(v) == RLt(v, Zero)

\* (mutant) the position advanced by v, not by v*dt
StepSNoDt(s, v, dt) == RAdd(s, v)
\* s = s + v*dt
StepS(s, v, dt) == RAdd(s, RMul(v, dt))
\* (mutant) the velocity update with the sign of the acceleration flipped
StepVMinus(v, a, dt) == RSub(v, RMul(a, dt))
\* v = v + a*dt
StepV(v, a, dt) == RAdd(v, RMul(a, dt))

NoFrame == [s |-> Zero, v |-> Zero, alpha |-> Zero, g |-> Zero, a |-> Zero,
            dt |-> Zero, s_in |-> Zero, v_in |-> Zero, n |-> 0]

\* function entry: parameters bound, then g, a and dt; s_in, v_in and n record
\* the arguments and the number of loop iterations run so far
Enter(s, v, alpha) ==
    [s |-> s, v |-> v, alpha |-> alpha, g |-> LocalG, a |-> Accel(alpha),
     dt |-> Dt, s_in |-> s, v_in |-> v, n |-> 0]

\* sr = s0 - u*u/(2*alpha*g), for 2*alpha*g # 0
ClosedForm(s0, u, alpha, g) ==
    RSub(s0, RDiv(RMul(u, u), RMul(RMul(Rat(2), alpha), g)))

----------------------------------------------------------------------------
(* Wide exact arithmetic, for the closed-form cell: the square of its      *)
(* 8-digit literal u does not fit the 32-bit integers of the rationals     *)
(* above.  A wide natural is a sequence of base-10000 digits, least        *)
(* significant first, without leading zero digits (0 is <<>>); a wide      *)
(* integer is [neg, mag]; a wide rational is [n, d] with d a wide natural  *)
(* > 0 (not reduced to lowest terms).                                      *)

RECURSIVE WOfNat(_)
WOfNat(n) == IF n = 0 THEN <<>> ELSE <<n % 10000>> \o WOfNat(n \div 10000)

RECURSIVE WTrim(_)
WTrim(a) ==
    IF a = <<>> THEN <<>>
    ELSE IF a[Len(a)] = 0 THEN WTrim(SubSeq(a, 1, Len(a) - 1)) ELSE a

WDigit(a) == IF a = <<>> THEN 0 ELSE Head(a)
WRest(a) == IF a = <<>> THEN <<>> ELSE Tail(a)

RECURSIVE WAddC(_, _, _)
WAddC(a, b, c) ==
    IF a = <<>> /\ b = <<>> THEN (IF c = 0 THEN <<>> ELSE <<c>>)
    ELSE <<(WDigit(a) + WDigit(b) + c) % 10000>>
         \o WAddC(WRest(a), WRest(b), (WDigit(a) + WDigit(b) + c) \div 10000)
WAdd(a, b) == WAddC(a, b, 0)

\* a - b - c for a >= b + c (c is the borrow, 0 or 1), before trimming
RECURSIVE WSubB(_, _, _)
WSubB(a, b, c) ==
    IF a = <<>> THEN <<>>
    ELSE IF WDigit(a) - WDigit(b) - c < 0
         THEN <<WDigit(a) - WDigit(b) - c + 10000>> \o WSubB(WRest(a), WRest(b), 1)
         ELSE <<WDigit(a) - WDigit(b) - c>> \o WSubB(WRest(a), WRest(b), 0)
WSub(a, b) == WTrim(WSubB(a, b, 0))

\* -1, 0, 1 as a < b, a = b, a > b
RECURSIVE WCmp(_, _)
WCmp(a, b) ==
    IF Len(a) # Len(b) THEN (IF Len(a) < Len(b) THEN -1 ELSE 1)
    ELSE IF a = <<>> THEN 0
    ELSE IF a[Len(a)] # b[Len(b)] THEN (IF a[Len(a)] < b[Len(b)] THEN -1 ELSE 1)
    ELSE WCmp(SubSeq(a, 1, Len(a) - 1), SubSeq(b, 1, Len(b) - 1))

\* a * m + c for one digit m
RECURSIVE WMulDigit(_, _, _)
WMulDigit(a, m, c) ==
    IF a = <<>> THEN (IF c = 0 THEN <<>> ELSE <<c>>)
    ELSE <<(Head(a) * m + c) % 10000>>
         \o WMulDigit(Tail(a), m, (Head(a) * m + c) \div 10000)

RECURSIVE WMul(_, _)
WMul(a, b) ==
    IF a = <<>> \/ b = <<>> THEN <<>>
    ELSE WTrim(WAdd(WMulDigit(a, Head(b), 0), <<0>> \o WMul(a, Tail(b))))

SInt(n) == [neg |-> n < 0, mag |-> WOfNat(Abs(n))]
SNeg(a) == [neg |-> ~a.neg /\ a.mag # <<>>, mag |-> a.mag]
SMul(a, b) == [neg |-> a.neg # b.neg /\ WMul(a.mag, b.mag) # <<>>,
               mag |-> WMul(a.mag, b.mag)]
SAdd(a, b) ==
    IF a.neg = b.neg THEN [neg |-> a.neg, mag |-> WAdd(a.mag, b.mag)]
    ELSE IF WCmp(a.mag, b.mag) = 0 THEN [neg |-> FALSE, mag |-> <<>>]
    ELSE IF WCmp(a.mag, b.mag) > 0 THEN [neg |-> a.neg, mag |-> WSub(a.mag, b.mag)]
    ELSE [neg |-> b.neg, mag |-> WSub(b.mag, a.mag)]
SPos(m) == [neg |-> FALSE, mag |-> m]

\* the rational <<n, d>> as a wide rational
WROf(x) == [n |-> SInt(x[1]), d |-> WOfNat(x[2])]
WRZero == WROf(Zero)
WRMul(x, y) == [n |-> SMul(x.n, y.n), d |-> WMul(x.d, y.d)]
WRSub(x, y) == [n |-> SAdd(SMul(x.n, SPos(y.d)), SNeg(SMul(y.n, SPos(x.d)))),
                d |-> WMul(x.d, y.d)]
\* x / y for y # 0
WRDiv(x, y) == [n |-> SMul(x.n, [neg |-> y.n.neg, mag |-> y.d]),
                d |-> WMul(x.d, y.n.mag)]
WRSign(x) == IF x.n.mag = <<>> THEN 0 ELSE IF x.n.neg THEN -1 ELSE 1
WRAbs(x) == [n |-> SPos(x.n.mag), d |-> x.d]
WRLe(x, y) == WRSign(WRSub(x, y)) <= 0
WRLt(x, y) == WRSign(WRSub(x, y)) < 0
WREq(x, y) == WRSign(WRSub(x, y)) = 0

\* sr = s0 - u*u/(2*alpha*g) over wide rationals, for 2*alpha*g # 0
ClosedFormW(s0, u, alpha, g) ==
    WRSub(s0, WRDiv(WRMul(u, u), WRMul(WRMul(WROf(Rat(2)), alpha), g)))

----------------------------------------------------------------------------
(* Bounds of the model.                                                    *)

\* loop iterations followed when the acceleration is not positive (the loop
\* then has no exit; the model follows it this far)
MaxIter == 8
\* initial positions i/10, velocities k/100, friction coefficients j/10 and
\* 5j/49 (for which alpha*g is the integer j)
MaxS == 1
MaxV == 3
MaxAlpha == 2

SGrid == { Norm(i, 10) : i \in -MaxS..MaxS }
VGrid == { Norm(k, 100) : k \in -MaxV..MaxV }
AlphaGrid == { Norm(j, 10) : j \in -MaxAlpha..MaxAlpha }
             \cup { Norm(5 * j, 49) : j \in -MaxAlpha..MaxAlpha }

----------------------------------------------------------------------------
(* The global namespace.                                                   *)

NoVal == [data |-> <<>>, frame_period |-> Zero, g |-> Zero, s |-> Zero,
          v0 |-> Zero, v1 |-> Zero, alpha |-> Zero, t |-> <<>>, X |-> <<>>,
          Y |-> <<>>, B |-> <<>>, s0 |-> Zero, u |-> Zero, sr |-> WRZero]

\* cell: the cell (or "direct" call) that ended; kind: "ok" or the exception
\* raised; name: the unbound name of a NameError; result: the value printed last
NoOut == [cell |-> "none", kind |-> "none", name |-> "", result |-> Zero]

----------------------------------------------------------------------------
(* The loop of restingPosition, one iteration per step.                    *)

\* while(v < 0): s = s + v*dt; v = v + a*dt
LoopIter ==
    /\ pc = "loop"
    /\ LoopCond(frame.v)
    /\ RSign(frame.a) > 0 \/ frame.n < MaxIter
    /\ frame' = [frame EXCEPT !.s = StepS(frame.s, frame.v, frame.dt),
                              !.v = StepV(frame.v, frame.a, frame.dt),
                              !.n = @ + 1]
    /\ UNCHANGED <<nb, dataSrc, bound, val, pc, caller, out, fits>>

\* return s (reached when the loop test fails); a call from the two-point
\* cell ends with the print of the returned value, which ends the cell
Return ==
    /\ pc = "loop"
    /\ ~LoopCond(frame.v)
    /\ pc' = "idle"
    /\ out' = [cell |-> caller, kind |-> "ok", name |-> "", result |-> frame.s]
    /\ UNCHANGED <<nb, dataSrc, bound, val, frame, caller, fits>>

\* a call restingPosition(s, v, alpha) typed into the kernel
DirectCall ==
    /\ pc = "idle"
    /\ "restingPosition" \in bound
    /\ \E s \in SGrid, v \in VGrid, alpha \in AlphaGrid :
          frame' = Enter(s, v, alpha)
    /\ pc' = "loop"
    /\ caller' = "direct"
    /\ out' = NoOut
    /\ UNCHANGED <<nb, dataSrc, bound, val, fits>>

\* the literal in the data cell
Data == << Norm(6180, 10000), Norm(6111, 10000), Norm(6042, 10000),
           Norm(5973, 10000), Norm(5905, 10000), Norm(5837, 10000),
           Norm(5770, 10000), Norm(5703, 10000) >>

\* a kernel in which the cell defining restingPosition has run
SimInit ==
    /\ nb \in {1, 2}
    /\ dataSrc = Data
    /\ bound = {"restingPosition"}
    /\ val = NoVal
    /\ pc = "idle"
    /\ frame = NoFrame
    /\ caller = "direct"
    /\ out = NoOut
    /\ fits = 0

SimNext == DirectCall \/ LoopIter \/ Return

\* a running Python loop keeps running: weak fairness of its steps
SimSpec == SimInit /\ [][SimNext]_vars /\ WF_vars(LoopIter) /\ WF_vars(Return)

----------------------------------------------------------------------------
(* Claims about restingPosition.                                           *)

\* the arguments of the current (or last) call
Called == frame # NoFrame
ValidArgs == RSign(frame.v_in) < 0 /\ RSign(frame.alpha) > 0
Returned == pc = "idle" /\ out.kind = "ok" /\ out.cell = "direct"

\* n*(n-1)/2
Tri(n) == (n * (n - 1)) \div 2

\* the values n Euler steps of size 1/1000 under acceleration 9.8*alpha give
EulerV(v, alpha, n) ==
    RAdd(v, RMul(Rat(n), RMul(RMul(alpha, Norm(98, 10)), Norm(1, 1000))))
EulerS(s, v, alpha, n) ==
    RAdd(RAdd(s, RMul(Rat(n), RMul(v, Norm(1, 1000)))),
         RMul(Rat(Tri(n)),
              RMul(RMul(alpha, Norm(98, 10)), Norm(1, 1000000))))

ValidCallRunning == pc = "loop" /\ ValidArgs
ReturnedAtFirstNonNegative ==
    /\ Returned /\ ValidArgs
    /\ frame.n >= 1
    /\ RSign(frame.v) >= 0
    /\ RSign(EulerV(frame.v_in, frame.alpha, frame.n - 1)) < 0
    /\ frame.v = EulerV(frame.v_in, frame.alpha, frame.n)
    /\ out.result = EulerS(frame.s_in, frame.v_in, frame.alpha, frame.n)

\* C1: for v < 0 and alpha > 0 the call terminates; in every loop state (s, v)
\* are the initial values advanced by n steps s := s + v*dt, v := v + alpha*g*dt
\* with dt = 0.001 and g = 9.8; the loop exits at the first iteration after
\* which v >= 0 and the position held then is returned.
C1_TerminatesAtFirstNonNegative == ValidCallRunning ~> ReturnedAtFirstNonNegative
C1_Witness ==
    Returned /\ ValidArgs /\ frame.n > 1 /\ RSign(frame.v) > 0

\* C2: with an initial velocity v >= 0, for any s and any alpha (alpha <= 0
\* too), the loop runs zero times and the input position s is returned.
C2_NonNegativeVelocityReturnsInput ==
    (Called /\ RSign(frame.v_in) >= 0) =>
        /\ frame.n = 0
        /\ frame.s = frame.s_in
        /\ Returned => out.result = frame.s_in
C2_Witness ==
    Returned /\ RSign(frame.v_in) >= 0 /\ RSign(frame.alpha) < 0
             /\ RSign(frame.s_in) # 0

\* C3: with v < 0 and alpha <= 0 the velocity never increases from one
\* iteration to the next (and keeps its initial value when alpha = 0), so the
\* loop test v < 0 keeps holding and the call never returns.
C3_NonPositiveFrictionNeverExits ==
    [][(Called' /\ RSign(frame'.v_in) < 0 /\ RSign(frame'.alpha) <= 0) =>
          /\ pc' = "loop"
          /\ LoopCond(frame'.v)
          /\ RSign(frame'.alpha) = 0 => frame'.v = frame'.v_in
          /\ frame'.n = frame.n + 1 => RLe(frame'.v, frame.v)]_vars
C3_Witness ==
    /\ pc = "loop" /\ frame.n = MaxIter
    /\ RSign(frame.v_in) < 0 /\ RSign(frame.alpha) < 0
    /\ RLt(frame.v, frame.v_in)

\* C4: a call with v < 0 and alpha <= 0 does not loop forever: once it has run
\* as many iterations as the iteration bound it has ended with an
\* InvalidParameter or NonConvergence error.
C4_InvalidCallFails ==
    (Called /\ RSign(frame.v_in) < 0 /\ RSign(frame.alpha) <= 0
            /\ frame.n >= MaxIter) =>
        (pc = "idle" /\ out.kind \in {"InvalidParameter", "NonConvergence"})

\* C5: for u < 0 and alpha > 0 the returned position is within dt*|u|
\* (dt = 0.001) of the closed form s0 - u^2/(2*alpha*g).
C5_WithinStepOfClosedForm ==
    (Returned /\ ValidArgs) =>
        WRLe(WRAbs(WRSub(WROf(out.result),
                         ClosedFormW(WROf(frame.s_in), WROf(frame.v_in),
                                     WROf(frame.alpha), WROf(Norm(98, 10))))),
             WROf(RMul(Norm(1, 1000), RAbs(frame.v_in))))
C5_Witness ==
    /\ Returned /\ ValidArgs /\ frame.n > 1
    /\ ~WREq(WROf(out.result),
             ClosedFormW(WROf(frame.s_in), WROf(frame.v_in),
                         WROf(frame.alpha), WROf(Norm(98, 10))))

----------------------------------------------------------------------------
(* The code cells of the notebook.  A cell runs its statements in order    *)
(* and stops at the first exception; the bindings made before it stay.     *)

\* the result of running a cell's statements: the namespace reached and how
\* the cell ended ("call": it reached the call of restingPosition)
Ran(b, v, kind, name) == [bound |-> b, val |-> v, kind |-> kind, name |-> name]

\* data = [...]
DataCell ==
    /\ pc = "idle"
    /\ bound' = bound \cup {"data"}
    /\ val' = [val EXCEPT !.data = dataSrc]
    /\ out' = [cell |-> "data", kind |-> "ok", name |-> "", result |-> Zero]
    /\ UNCHANGED <<nb, dataSrc, pc, frame, caller, fits>>

\* def restingPosition(s, v, alpha): ...
DefCell ==
    /\ pc = "idle"
    /\ bound' = bound \cup {"restingPosition"}
    /\ out' = [cell |-> "def", kind |-> "ok", name |-> "", result |-> Zero]
    /\ UNCHANGED <<nb, dataSrc, val, pc, frame, caller, fits>>

\* frame_period = 1.0/50.0
FramePeriod == RDiv(Rat(1), Rat(50))
\* g = 9.8 (two-point cell)
TwoPointG == Norm(98, 10)

\* v0 = (data[1] - data[0])/frame_period, v1 = (data[7] - data[6])/frame_period
Velocity(later, earlier, frame_period) == RDiv(RSub(later, earlier), frame_period)
\* (mutant) the velocity difference spread over 7 frame periods
TwoPointAlphaSeven(v0, v1, frame_period, g) ==
    RDiv(RSub(v1, v0), RMul(RMul(Rat(7), frame_period), g))
\* alpha = (v1-v0)/(6*frame_period*g)
TwoPointAlpha(v0, v1, frame_period, g) ==
    RDiv(RSub(v1, v0), RMul(RMul(Rat(6), frame_period), g))

\* the statements of the two-point cell up to the call of restingPosition
\* (data[i] of the code is d[i+1] here)
TwoPointRun(b, v) ==
    LET d  == v.data
        b1 == b \cup {"frame_period", "g"}
        v1 == [v EXCEPT !.frame_period = FramePeriod, !.g = TwoPointG]
        v2 == [v1 EXCEPT !.s = d[1]]
        v3 == [v2 EXCEPT !.v0 = Velocity(d[2], d[1], v1.frame_period)]
        v4 == [v3 EXCEPT !.v1 = Velocity(d[8], d[7], v1.frame_period)]
        v5 == [v4 EXCEPT !.alpha = TwoPointAlpha(v4.v0, v4.v1, v1.frame_period, v1.g)]
    IN  IF "data" \notin b THEN Ran(b1, v1, "NameError", "data")
        ELSE IF Len(d) < 1 THEN Ran(b1, v1, "IndexError", "")
        ELSE IF Len(d) < 2 THEN Ran(b1 \cup {"s"}, v2, "IndexError", "")
        ELSE IF Len(d) < 8 THEN Ran(b1 \cup {"s", "v0"}, v3, "IndexError", "")
        ELSE IF "restingPosition" \notin b
             THEN Ran(b1 \cup {"s", "v0", "v1", "alpha"}, v5, "NameError",
                      "restingPosition")
        ELSE Ran(b1 \cup {"s", "v0", "v1", "alpha"}, v5, "call", "")

\* the two-point cell: its assignments and prints, then the call
\* restingPosition(s,v0,alpha), whose result the last print shows
TwoPointCell ==
    /\ pc = "idle"
    /\ LET r == TwoPointRun(bound, val)
       IN  /\ bound' = r.bound
           /\ val' = r.val
           /\ IF r.kind = "call"
              THEN /\ pc' = "loop"
                   /\ frame' = Enter(r.val.s, r.val.v0, r.val.alpha)
                   /\ caller' = "twopoint"
                   /\ out' = [cell |-> "twopoint", kind |-> "running",
                              name |-> "", result |-> Zero]
              ELSE /\ out' = [cell |-> "twopoint", kind |-> r.kind,
                              name |-> r.name, result |-> Zero]
                   /\ UNCHANGED <<pc, frame, caller>>
    /\ UNCHANGED <<nb, dataSrc, fits>>

\* (mutant) the sample times counted from the first frame period, not from 0
TOneBased == << RDiv(Rat(1), Rat(50)), RDiv(Rat(2), Rat(50)),
                RDiv(Rat(3), Rat(50)), RDiv(Rat(4), Rat(50)),
                RDiv(Rat(5), Rat(50)), RDiv(Rat(6), Rat(50)),
                RDiv(Rat(7), Rat(50)), RDiv(Rat(8), Rat(50)) >>
\* t = np.array([0, 1.0/50, 2.0/50, 3.0/50, 4.0/50, 5.0/50, 6.0/50, 7.0/50])
T == << Rat(0), RDiv(Rat(1), Rat(50)), RDiv(Rat(2), Rat(50)),
        RDiv(Rat(3), Rat(50)), RDiv(Rat(4), Rat(50)), RDiv(Rat(5), Rat(50)),
        RDiv(Rat(6), Rat(50)), RDiv(Rat(7), Rat(50)) >>

\* (mutant) the third column without the factor g
DesignRowNoG(tn, g) == <<Rat(1), tn, RMul(RMul(Norm(1, 2), tn), tn)>>
\* (mutant) the third column without the factor 0.5
DesignRowNoHalf(tn, g) == <<Rat(1), tn, RMul(RMul(g, tn), tn)>>
\* one row of np.vstack([np.ones(len(t)), t, 0.5*g*t*t]).T
DesignRow(tn, g) == <<Rat(1), tn, RMul(RMul(RMul(Norm(1, 2), g), tn), tn)>>
Design(t, g) == [n \in 1..Len(t) |-> DesignRow(t[n], g)]

\* sum over the first n rows of X[k][i]*X[k][j], and of X[k][i]*Y[k]
RECURSIVE ColDot(_, _, _, _)
ColDot(X, i, j, n) ==
    IF n = 0 THEN Zero ELSE RAdd(ColDot(X, i, j, n - 1), RMul(X[n][i], X[n][j]))
RECURSIVE ColDotY(_, _, _, _)
ColDotY(X, Y, i, n) ==
    IF n = 0 THEN Zero ELSE RAdd(ColDotY(X, Y, i, n - 1), RMul(X[n][i], Y[n]))

\* the solution of the 3x3 system A x = b by Gaussian elimination (A is the
\* Gram matrix of a design matrix of full column rank: the pivots are not 0)
Solve3(A, b) ==
    LET f21 == RDiv(A[2][1], A[1][1])
        f31 == RDiv(A[3][1], A[1][1])
        a22 == RSub(A[2][2], RMul(f21, A[1][2]))
        a23 == RSub(A[2][3], RMul(f21, A[1][3]))
        c2  == RSub(b[2], RMul(f21, b[1]))
        a32 == RSub(A[3][2], RMul(f31, A[1][2]))
        a33 == RSub(A[3][3], RMul(f31, A[1][3]))
        c3  == RSub(b[3], RMul(f31, b[1]))
        f32 == RDiv(a32, a22)
        e33 == RSub(a33, RMul(f32, a23))
        e3  == RSub(c3, RMul(f32, c2))
        x3  == RDiv(e3, e33)
        x2  == RDiv(RSub(c2, RMul(a23, x3)), a22)
        x1  == RDiv(RSub(RSub(b[1], RMul(A[1][2], x2)), RMul(A[1][3], x3)), A[1][1])
    IN  <<x1, x2, x3>>

\* np.linalg.lstsq(X, Y)[0] and LinearRegression(False).fit(X,Y).coef_ for
\* Len(X) = Len(Y): the least-squares solution, i.e. the solution of the
\* normal equations (X^T X) B = X^T Y
Lstsq(X, Y) ==
    Solve3([i \in 1..3 |-> [j \in 1..3 |-> ColDot(X, i, j, Len(X))]],
           [i \in 1..3 |-> ColDotY(X, Y, i, Len(X))])

\* the exception of the solver for Len(X) # Len(Y): sklearn's input check in
\* notebook copy 2, numpy's lstsq in copy 1
MismatchError(n) == IF n = 2 THEN "ValueError" ELSE "LinAlgError"

\* the statements of the fit cell of notebook copy n
FitRun(b, v, n) ==
    LET b1 == b \cup {"np", "t"} \cup (IF n = 2 THEN {"LinearRegression"} ELSE {})
        v1 == [v EXCEPT !.t = T]
        v2 == [v1 EXCEPT !.X = Design(v1.t, v.g)]
        v3 == [v2 EXCEPT !.Y = v.data]
        v4 == [v3 EXCEPT !.B = Lstsq(v3.X, v3.Y)]
    IN  IF "g" \notin b THEN Ran(b1, v1, "NameError", "g")
        ELSE IF "data" \notin b THEN Ran(b1 \cup {"X"}, v2, "NameError", "data")
        ELSE IF Len(v3.Y) # Len(v3.X)
             THEN Ran(b1 \cup {"X", "Y"}, v3, MismatchError(n), "")
        ELSE IF n = 1   \* copy 1 ends with: print "D = ", D
             THEN Ran(b1 \cup {"X", "Y", "B"}, v4, "NameError", "D")
        ELSE Ran(b1 \cup {"X", "Y", "B"}, v4, "ok", "")

\* how many runs of the fit cell the model follows
MaxFits == 2

FitCell ==
    /\ pc = "idle"
    /\ fits < MaxFits
    /\ LET r == FitRun(bound, val, nb)
       IN  /\ bound' = r.bound
           /\ val' = r.val
           /\ out' = [cell |-> "fit", kind |-> r.kind, name |-> r.name,
                      result |-> Zero]
    /\ fits' = fits + 1
    /\ UNCHANGED <<nb, dataSrc, pc, frame, caller>>

\* s0 = 0.61802083, u = -0.34818452, alpha = 0.01062925, g= 9.8
LitS0 == Norm(61802083, 100000000)
LitU == Norm(-34818452, 100000000)
LitAlpha == Norm(1062925, 100000000)
\* (mutant) g rounded to 10
ClosedFormGTen == Rat(10)
ClosedFormG == Norm(98, 10)

\* the closed-form cell: four assignments of literals, then
\* sr = s0 - u*u/(2*alpha*g) (a ZeroDivisionError when 2*alpha*g is 0) and
\* print sr; sr is held as a wide rational
SrRun(b, v) ==
    LET v2 == [v EXCEPT !.sr = ClosedFormW(WROf(v.s0), WROf(v.u),
                                           WROf(v.alpha), WROf(v.g))]
    IN  IF RSign(RMul(RMul(Rat(2), v.alpha), v.g)) = 0
        THEN Ran(b, v, "ZeroDivisionError", "")
        ELSE Ran(b \cup {"sr"}, v2, "ok", "")
ClosedFormRun(b, v) ==
    SrRun(b \cup {"s0", "u", "alpha", "g"},
          [v EXCEPT !.s0 = LitS0, !.u = LitU, !.alpha = LitAlpha,
                    !.g = ClosedFormG])

ClosedFormCell ==
    /\ pc = "idle"
    /\ LET r == ClosedFormRun(bound, val)
       IN  /\ bound' = r.bound
           /\ val' = r.val
           /\ out' = [cell |-> "closedform", kind |-> r.kind, name |-> r.name,
                      result |-> Zero]
    /\ UNCHANGED <<nb, dataSrc, pc, frame, caller, fits>>

\* the cell of copy 2 that holds only the comment "# todo"
TodoCell ==
    /\ pc = "idle"
    /\ nb = 2
    /\ out' = [cell |-> "todo", kind |-> "ok", name |-> "", result |-> Zero]
    /\ UNCHANGED <<nb, dataSrc, bound, val, pc, frame, caller, fits>>

\* a fresh kernel with one of the two notebook copies loaded
Init ==
    /\ nb \in {1, 2}
    /\ dataSrc = Data
    /\ bound = {}
    /\ val = NoVal
    /\ pc = "idle"
    /\ frame = NoFrame
    /\ caller = "none"
    /\ out = NoOut
    /\ fits = 0

\* the cells may be run in any order, any number of times
Next ==
    \/ DataCell
    \/ DefCell
    \/ TwoPointCell
    \/ FitCell
    \/ ClosedFormCell
    \/ TodoCell
    \/ LoopIter
    \/ Return

Spec == Init /\ [][Next]_vars

----------------------------------------------------------------------------
(* The fit cell on other observation lists: the data cell holds a noiseless *)
(* list generated from a parameter triple.                                  *)

\* the longest observation list tried
MaxN == 9

\* the parameter triples the noiseless lists are generated from: positions
\* i/10, velocities -k/100 and friction coefficients 5j/49 (alpha*g is then the
\* integer j, which keeps the observations within the integer range)
MaxFitS == 1
MaxFitU == 1
MaxFitAlpha == 1
ParamGrid ==
    { Norm(i, 10) : i \in 0..MaxFitS }
        \X { Norm(-k, 100) : k \in 0..MaxFitU }
        \X { Norm(5 * j, 49) : j \in -MaxFitAlpha..MaxFitAlpha }

\* d_n = s0 + u*t_n + 0.5*alpha*g*t_n^2 at t_n = n*period, n = 0..N-1, with
\* period = 1/50 and g = 9.8 (p = <<s0, u, alpha>>)
NoiselessAt(p, tn) ==
    RAdd(RAdd(p[1], RMul(p[2], tn)),
         RMul(RMul(RMul(Norm(1, 2), p[3]), Norm(98, 10)), RMul(tn, tn)))
Noiseless(N, p) == [n \in 1..N |-> NoiselessAt(p, Norm(n - 1, 50))]

FitInit ==
    /\ nb \in {1, 2}
    /\ dataSrc \in { Noiseless(N, p) : N \in 0..MaxN, p \in ParamGrid }
    /\ bound = {}
    /\ val = NoVal
    /\ pc = "idle"
    /\ frame = NoFrame
    /\ caller = "none"
    /\ out = NoOut
    /\ fits = 0

\* the two-point cell is here the cell that binds g: it does so before it
\* stops at the unbound restingPosition or at a missing observation
FitNext == DataCell \/ TwoPointCell \/ FitCell

FitSpec == FitInit /\ [][FitNext]_vars

----------------------------------------------------------------------------
(* Claims about the fit and the two-point estimate.                        *)

\* the fit cell was the last cell run and it got as far as the solver: both
\* names it reads, g and data, were bound
FitReachedSolver ==
    /\ out.cell = "fit"
    /\ ~(out.kind = "NameError" /\ out.name \in {"g", "data"})

\* the list Y is the noiseless observation list of the triple p
IsNoiseless(Y, p) ==
    \A n \in 1..Len(Y) : Y[n] = NoiselessAt(p, Norm(n - 1, 50))

Within(x, y, tol) == RLe(RAbs(RSub(x, y)), tol)

C7_FitOfMeasuredData ==
    /\ "B" \in bound =>
          /\ Within(val.B[1], Norm(61802, 100000), Norm(1, 10000))
          /\ Within(val.B[2], Norm(-34818, 100000), Norm(1, 10000))
          /\ Within(val.B[3], Norm(1063, 100000), Norm(1, 10000))
          /\ Within(ClosedForm(val.B[1], val.B[2], val.B[3], Norm(98, 10)),
                    Norm(3610, 100000), Norm(1, 1000))
          /\ RSign(ClosedForm(val.B[1], val.B[2], val.B[3], Norm(98, 10))) > 0
    /\ (out.cell = "closedform" /\ out.kind = "ok") =>
          /\ Within(val.s0, Norm(61802, 100000), Norm(1, 10000))
          /\ Within(val.u, Norm(-34818, 100000), Norm(1, 10000))
          /\ Within(val.alpha, Norm(1063, 100000), Norm(1, 10000))
          /\ WRLe(WRAbs(WRSub(val.sr, WROf(Norm(3610, 100000)))),
                  WROf(Norm(1, 1000)))
          /\ WRSign(val.sr) > 0
C7_Witness ==
    "B" \in bound /\ out.cell = "closedform" /\ out.kind = "ok" /\ "sr" \in bound

\* C8: the two-point cell binds s = 0.618, v0 = -0.345, v1 = -0.335 and
\* alpha = (v1 - v0)/(6*0.02*9.8), and restingPosition(s, v0, alpha) returns a
\* strictly negative position within 1e-4 of -0.0963, while the resting
\* position of the least-squares fit of the same data is strictly positive.
C8_TwoPointEstimateNegative ==
    (out.cell = "twopoint" /\ out.kind = "ok") =>
        /\ val.s = Norm(618, 1000)
        /\ val.v0 = Norm(-345, 1000)
        /\ val.v1 = Norm(-335, 1000)
        /\ val.alpha = RDiv(Norm(10, 1000), Norm(1176, 1000))
        /\ frame.s_in = val.s /\ frame.v_in = val.v0 /\ frame.alpha = val.alpha
        /\ RSign(out.result) < 0
        /\ Within(out.result, Norm(-963, 10000), Norm(1, 10000))
        /\ "B" \in bound =>
              RSign(ClosedForm(val.B[1], val.B[2], val.B[3], Norm(98, 10))) > 0
C8_Witness ==
    out.cell = "twopoint" /\ out.kind = "ok" /\ "B" \in bound /\ frame.n > 1

\* C9: once data and g are bound, every run of the fit cell binds B, and to the
\* value B already has if an earlier run bound it, whatever cells ran between.
C9_FitIsRepeatable ==
    [][(fits' = fits + 1 /\ "data" \in bound /\ "g" \in bound) =>
          ("B" \in bound' /\ ("B" \in bound => val'.B = val.B))]_vars
C9_Witness ==
    /\ fits = MaxFits /\ out.cell = "fit" /\ "B" \in bound
    /\ "sr" \in bound /\ "v1" \in bound

\* C10: with fewer than 3 observations the fit fails with an InsufficientData
\* error and binds no parameter triple.
C10_InsufficientDataRejected ==
    (FitReachedSolver /\ Len(val.Y) < 3) =>
        (out.kind = "InsufficientData" /\ "B" \notin bound)

----------------------------------------------------------------------------
(* The closed-form statement on other parameter values: s0, u and alpha are *)
(* bound to values of the grids, g to 9.8, and the statement                *)
(* sr = s0 - u*u/(2*alpha*g) with its print is run on them.                 *)

\* sr = s0 - u*u/(2*alpha*g); print sr
SrStmt ==
    /\ pc = "idle"
    /\ {"s0", "u", "alpha", "g"} \subseteq bound
    /\ LET r == SrRun(bound, val)
       IN  /\ bound' = r.bound
           /\ val' = r.val
           /\ out' = [cell |-> "sr", kind |-> r.kind, name |-> r.name,
                      result |-> Zero]
    /\ UNCHANGED <<nb, dataSrc, pc, frame, caller, fits>>

ClosedInit ==
    /\ nb \in {1, 2}
    /\ dataSrc = Data
    /\ bound = {"s0", "u", "alpha", "g"}
    /\ \E s0 \in SGrid, u \in VGrid, alpha \in AlphaGrid :
          val = [NoVal EXCEPT !.s0 = s0, !.u = u, !.alpha = alpha,
                              !.g = ClosedFormG]
    /\ pc = "idle"
    /\ frame = NoFrame
    /\ caller = "none"
    /\ out = NoOut
    /\ fits = 0

ClosedNext == SrStmt

ClosedSpec == ClosedInit /\ [][ClosedNext]_vars

\* C11: the closed-form statement ends with a number exactly when alpha > 0
\* and u < 0; for alpha <= 0 or u >= 0 it ends with an error.
C11_ErrorOutsideDeceleratingDomain ==
    out.cell = "sr" =>
        (out.kind = "ok" <=> (RSign(val.alpha) > 0 /\ RSign(val.u) < 0))

----------------------------------------------------------------------------
(* The design matrix of the fit cell.                                      *)

\* row n of the claimed design matrix: [1, n*period, 0.5*g*(n*period)^2] with
\* period = 1/50 and g = 9.8
ClaimedRow(n) ==
    <<Rat(1), Norm(n, 50), RMul(Norm(49, 10), RMul(Norm(n, 50), Norm(n, 50)))>>

----------------------------------------------------------------------------
(* The simulated resting position against the closed form.                 *)

\* closed form minus returned position of the call just returned
Shortfall ==
    WRSub(ClosedFormW(WROf(frame.s_in), WROf(frame.v_in), WROf(frame.alpha),
                      WROf(Norm(98, 10))),
          WROf(out.result))
\* |u|*dt/2 and a*dt^2/8 for the call just returned (dt = 0.001, a = 9.8*alpha)
HalfStep == WROf(RMul(Norm(1, 2000), RAbs(frame.v_in)))
EighthStep == WROf(RMul(Norm(1, 8000000), RMul(frame.alpha, Norm(98, 10))))

\* C13: for u < 0 and alpha > 0 the call returns
\* s0 + n*u*dt + a*dt^2*n*(n-1)/2 with n the least positive integer such that
\* u + n*a*dt >= 0; the result is not greater than the closed form
\* s0 - u^2/(2*a), and the shortfall lies between |u|*dt/2 and
\* |u|*dt/2 + a*dt^2/8.
C13_ShortfallBetweenHalfStepBounds ==
    (Returned /\ ValidArgs) =>
        \E n \in 1..frame.n :
            /\ RSign(EulerV(frame.v_in, frame.alpha, n)) >= 0
            /\ \A m \in 1..(n - 1) :
                  RSign(EulerV(frame.v_in, frame.alpha, m)) < 0
            /\ out.result = EulerS(frame.s_in, frame.v_in, frame.alpha, n)
            /\ WRSign(Shortfall) >= 0
            /\ WRLe(HalfStep, Shortfall)
            /\ WRLe(Shortfall, WRSub(HalfStep, WRSub(WRZero, EighthStep)))
C13_Witness ==
    /\ Returned /\ ValidArgs /\ frame.n > 1
    /\ WRLt(HalfStep, Shortfall)

----------------------------------------------------------------------------
(* The code cells run top to bottom, once each, from a fresh kernel.  The   *)
(* run goes on to the next cell when the cell before it has ended without  *)
(* an exception, and stops at a cell that raised one.                      *)

\* the cell named prev was the last to run and it ended without an exception
Ready(prev) == pc = "idle" /\ out.cell = prev /\ out.kind \in {"none", "ok"}

RunData == Ready("none") /\ DataCell
RunDef == Ready("data") /\ DefCell
RunTwoPoint == Ready("def") /\ TwoPointCell
RunFit == Ready("twopoint") /\ FitCell
RunClosedForm == Ready("fit") /\ ClosedFormCell
RunTodo == Ready("closedform") /\ TodoCell

RunAllNext ==
    \/ RunData
    \/ RunDef
    \/ RunTwoPoint
    \/ LoopIter
    \/ Return
    \/ RunFit
    \/ RunClosedForm
    \/ RunTodo

RunAllSpec == Init /\ [][RunAllNext]_vars

\* C14: run top to bottom from an empty namespace, no cell of either notebook
\* copy reads a name that is not bound.
C14_NoUnboundNameRead == out.kind # "NameError"

====
